---- MODULE Spec2Model ----
(***************************************************************************)
(* State-machine model of the YouTube transcriber API.                     *)
(*   src/main.py : hosted variant (Groq speech-to-text behind a four-way   *)
(*                 usage limiter, YouTube captions as fallback)            *)
(*   src/app.py  : local-engine variant (in-process Whisper, same fallback)*)
(* Each /transcribe request is a thread of the server; the usage counters  *)
(* and their lock are the only state the requests share.  Strings the code *)
(* takes apart (the Authorization header, the video URL) are sequences of  *)
(* one-character strings.  Audio durations and the clock are whole seconds.*)
(***************************************************************************)
EXTENDS Integers, Sequences, FiniteSets, TLC

\* ------------------------------------------------------------------ bounds
NumReq == 2
MaxTicks == 1

Req == 1 .. NumReq

\* ----------------------------------------------------------- configuration
API_TOKEN == <<"y","o","u","r","-","s","e","c","r","e","t","-","t","o","k","e","n">>
GROQ_MAX_FILE_MB == 25
GROQ_LIMITS == [rpm |-> 20, rpd |-> 2000, ash |-> 7200, asd |-> 28800]

\* ------------------------------------------------------------ str helpers
BearerPrefix == <<"B","e","a","r","e","r"," ">>

\* str.startswith
StartsWith(s, p) == Len(s) >= Len(p) /\ SubSeq(s, 1, Len(p)) = p

\* str.split(" "): every single space separates, empty pieces are kept
RECURSIVE SplitAcc(_, _, _)
SplitAcc(s, cur, acc) ==
    IF s = <<>> THEN Append(acc, cur)
    ELSE IF Head(s) = " " THEN SplitAcc(Tail(s), <<>>, Append(acc, cur))
    ELSE SplitAcc(Tail(s), Append(cur, Head(s)), acc)

Split(s) == SplitAcc(s, <<>>, <<>>)

\* The token verify_token compares: authorization.split(" ")[1]
TokenOf(authorization) == Split(authorization)[2]

\* (verify_token without its token comparison)
verify_token_SkipCompare(authorization) ==
    IF ~StartsWith(authorization, BearerPrefix) THEN 401 ELSE 0

\* verify_token: the status of the HTTPException it raises, 0 when it returns
verify_token(authorization) ==
    IF ~StartsWith(authorization, BearerPrefix) THEN 401
    ELSE IF TokenOf(authorization) # API_TOKEN THEN 403
    ELSE 0

AuthDetail(status) ==
    IF status = 401 THEN "Invalid authorization header" ELSE "Invalid API token"

\* Authorization headers a client may send
Headers ==
    { BearerPrefix \o API_TOKEN,
      BearerPrefix \o <<"w","r","o","n","g">>,
      API_TOKEN,
      <<"b","e","a","r","e","r"," ">> \o API_TOKEN,
      <<"B","e","a","r","e","r">>,
      BearerPrefix,
      BearerPrefix \o <<" ">> \o API_TOKEN,
      BearerPrefix \o API_TOKEN \o <<" ","x">> }

\* ------------------------------------------------------- extract_video_id
IdChars ==
    { "0","1","2","3","4","5","6","7","8","9",
      "A","B","C","D","E","F","G","H","I","J","K","L","M","N","O","P","Q","R",
      "S","T","U","V","W","X","Y","Z",
      "a","b","c","d","e","f","g","h","i","j","k","l","m","n","o","p","q","r",
      "s","t","u","v","w","x","y","z","_","-" }

\* 11 identifier characters start at position i of url
IdAt(url, i) ==
    /\ i >= 1
    /\ i + 10 <= Len(url)
    /\ \A j \in i .. i + 10 : url[j] \in IdChars

\* Where group 1 starts if (?:v=|\/)([0-9A-Za-z_-]{11}) matches at i, else 0
MatchAt(url, i) ==
    IF i + 1 <= Len(url) /\ url[i] = "v" /\ url[i + 1] = "=" /\ IdAt(url, i + 2)
    THEN i + 2
    ELSE IF url[i] = "/" /\ IdAt(url, i + 1) THEN i + 1
    ELSE 0

\* re.search: the leftmost match; <<>> stands for the ValueError
extract_video_id(url) ==
    LET hits == { i \in 1 .. Len(url) : MatchAt(url, i) # 0 }
    IN  IF hits = {} THEN <<>>
        ELSE LET first == CHOOSE i \in hits : \A j \in hits : i <= j
             IN  SubSeq(url, MatchAt(url, first), MatchAt(url, first) + 10)

URLs ==
    { <<"h","t","t","p","s",":","/","/","y","o","u","t","u",".","b","e","/",
        "d","Q","w","4","w","9","W","g","X","c","Q">>,
      <<"h","t","t","p","s",":","/","/","y","o","u","t","u",".","b","e","/",
        "s","h","o","r","t">> }

\* ------------------------------------------------------------ usage_stats
Keys == <<"minute", "day", "hour_audio", "day_audio">>
KeySet == { Keys[i] : i \in 1 .. Len(Keys) }

WindowLength(key) ==
    IF key = "minute" THEN 60 ELSE IF key = "hour_audio" THEN 3600 ELSE 86400

\* usage_stats as constructed at import time t
FreshUsage(t) ==
    [ minute     |-> [count |-> 0, reset |-> t + 60],
      day        |-> [count |-> 0, reset |-> t + 86400],
      hour_audio |-> [seconds |-> 0, reset |-> t + 3600],
      day_audio  |-> [seconds |-> 0, reset |-> t + 86400] ]

\* The counter a window carries: "count" or "seconds"
Counter(stats, key) ==
    IF "count" \in DOMAIN stats[key] THEN stats[key].count ELSE stats[key].seconds

Counters(stats) == [ key \in KeySet |-> Counter(stats, key) ]

NoSnapshot == [ key \in KeySet |-> 0 - 1 ]

\* (reset_if_needed testing now >= reset)
reset_if_needed_Inclusive(stats, key, t) ==
    IF t >= stats[key].reset
    THEN [stats EXCEPT ![key] =
            [ f \in DOMAIN stats[key] |->
                IF f = "reset" THEN t + WindowLength(key) ELSE 0 ]]
    ELSE stats

\* reset_if_needed(key) with time.time() = t
reset_if_needed(stats, key, t) ==
    IF t > stats[key].reset
    THEN [stats EXCEPT ![key] =
            [ f \in DOMAIN stats[key] |->
                IF f = "reset" THEN t + WindowLength(key) ELSE 0 ]]
    ELSE stats

\* (the audio tests written with >= instead of >)
FirstViolation_StrictAudio(stats, audio) ==
    IF stats.minute.count >= GROQ_LIMITS.rpm THEN "Groq RPM limit reached"
    ELSE IF stats.day.count >= GROQ_LIMITS.rpd THEN "Groq RPD limit reached"
    ELSE IF stats.hour_audio.seconds + audio >= GROQ_LIMITS.ash
         THEN "Groq ASH limit reached"
    ELSE IF stats.day_audio.seconds + audio >= GROQ_LIMITS.asd
         THEN "Groq ASD limit reached"
    ELSE "none"

\* (the audio tests placed before the request tests)
FirstViolation_AudioFirst(stats, audio) ==
    IF stats.hour_audio.seconds + audio > GROQ_LIMITS.ash
    THEN "Groq ASH limit reached"
    ELSE IF stats.day_audio.seconds + audio > GROQ_LIMITS.asd
         THEN "Groq ASD limit reached"
    ELSE IF stats.minute.count >= GROQ_LIMITS.rpm THEN "Groq RPM limit reached"
    ELSE IF stats.day.count >= GROQ_LIMITS.rpd THEN "Groq RPD limit reached"
    ELSE "none"

\* The four checks of check_and_update_limits, in order: the detail of the
\* 429 raised, "none" when all pass
FirstViolation(stats, audio) ==
    IF stats.minute.count >= GROQ_LIMITS.rpm THEN "Groq RPM limit reached"
    ELSE IF stats.day.count >= GROQ_LIMITS.rpd THEN "Groq RPD limit reached"
    ELSE IF stats.hour_audio.seconds + audio > GROQ_LIMITS.ash
         THEN "Groq ASH limit reached"
    ELSE IF stats.day_audio.seconds + audio > GROQ_LIMITS.asd
         THEN "Groq ASD limit reached"
    ELSE "none"

\* The four increments of check_and_update_limits
Commit(stats, audio) ==
    [stats EXCEPT !.minute.count = @ + 1,
                  !.day.count = @ + 1,
                  !.hour_audio.seconds = @ + audio,
                  !.day_audio.seconds = @ + audio]

\* Usage the server may have accumulated before the requests modelled here:
\* a mid-window state one request short of both request limits, and one with
\* room for one more hour of audio in both audio windows
BusyCounts(t) ==
    [ minute |-> [count |-> GROQ_LIMITS.rpm - 1, reset |-> t + 30],
      day    |-> [count |-> GROQ_LIMITS.rpd - 1, reset |-> t + 43200] ]

BusyAudio(t) ==
    [ hour_audio |-> [seconds |-> GROQ_LIMITS.ash - 3600, reset |-> t + 1800],
      day_audio  |-> [seconds |-> GROQ_LIMITS.asd - 3600, reset |-> t + 43200] ]

InitialUsage ==
    { [ minute |-> c.minute, day |-> c.day,
        hour_audio |-> a.hour_audio, day_audio |-> a.day_audio ] :
      c \in { FreshUsage(0), BusyCounts(0) },
      a \in { FreshUsage(0), BusyAudio(0) } }

\* ------------------------------------------------------- external results
MB == 1024 * 1024

\* What ffmpeg leaves at mp3_path: no file, or a file of this many bytes
FfmpegResults ==
    { [exists |-> FALSE, size |-> 0],
      [exists |-> TRUE, size |-> 0],
      [exists |-> TRUE, size |-> GROQ_MAX_FILE_MB * MB],
      [exists |-> TRUE, size |-> GROQ_MAX_FILE_MB * MB + 1] }

\* What ffprobe prints: nothing float() can parse, or a duration in seconds
ProbeResults ==
    { [parsed |-> FALSE, value |-> 0],
      [parsed |-> TRUE, value |-> 3600],
      [parsed |-> TRUE, value |-> 3601] }

\* How subprocess.run ends: the program ran, or it could not be started
\* (FileNotFoundError, outside every try of the helper that calls it)
RunResults == { "ran", "FileNotFoundError" }

\* get_audio_duration: float(result.stdout.strip()), 0.0 when that raises
get_audio_duration(stdout) ==
    IF stdout.parsed THEN stdout.value ELSE 0

TickSteps == { 60, 3600, 86400 }

NoResponse == [status |-> 0, body |-> "none"]

\* ------------------------------------------------------------------ state
VARIABLES
    now,            \* time.time(), whole seconds
    ticks,          \* how often the clock has advanced
    usage_stats,    \* main.py usage_stats
    usage_lock,     \* main.py usage_lock: TRUE while held
    pc,             \* where each request stands
    authorization,  \* the Authorization header, while verify_token runs
    video_url,      \* req.video_url
    mp4,            \* whether <temp_id>.mp4 exists
    mp3,            \* <temp_id>.mp3: [exists, size in bytes]
    audio_seconds,  \* call_groq_transcription's audio_seconds
    key_idx,        \* position of check_and_update_limits' loop over the keys
    groq_error,     \* the exception bound by "except Exception as groq_error"
    response,       \* what the caller receives: [status, body]
    trace,          \* history: the steps the request has taken
    after_reset,    \* history: the counters as check_and_update_limits'
                    \* reset loop left them
    transcript,     \* what YouTubeTranscriptApi.get_transcript returned
    result,         \* the "segments" of what call_groq_transcription returned
    segments,       \* the handler's segments list
    source          \* the "source" of the response that carries segments

vars == << now, ticks, usage_stats, usage_lock, pc, authorization, video_url,
           mp4, mp3, audio_seconds, key_idx, groq_error,
           response, trace, after_reset,
           transcript, result, segments, source >>

shared == << now, ticks, usage_stats, usage_lock >>
files == << mp4, mp3 >>
quota_locals == << audio_seconds, key_idx, after_reset >>
inputs == << authorization, video_url >>
captions == << transcript, result, segments, source >>

NoFile == [exists |-> FALSE, size |-> 0]

Init ==
    /\ now = 0
    /\ ticks = 0
    /\ usage_stats \in InitialUsage
    /\ usage_lock = FALSE
    /\ pc = [r \in Req |-> "idle"]
    /\ authorization = [r \in Req |-> <<>>]
    /\ video_url = [r \in Req |-> <<>>]
    /\ mp4 = [r \in Req |-> FALSE]
    /\ mp3 = [r \in Req |-> NoFile]
    /\ audio_seconds = [r \in Req |-> 0]
    /\ key_idx = [r \in Req |-> 0]
    /\ groq_error = [r \in Req |-> "none"]
    /\ response = [r \in Req |-> NoResponse]
    /\ trace = [r \in Req |-> {}]
    /\ after_reset = [r \in Req |-> NoSnapshot]
    /\ transcript = << >>
    /\ result = << >>
    /\ segments = << >>
    /\ source = "none"

\* ------------------------------------------------------------- the clock
Tick ==
    /\ ticks < MaxTicks
    /\ \E d \in TickSteps : now' = now + d
    /\ ticks' = ticks + 1
    /\ UNCHANGED captions
    /\ UNCHANGED << usage_stats, usage_lock, pc, authorization, video_url, mp4,
                    mp3, audio_seconds, key_idx, groq_error,
                    response, trace, after_reset >>

\* ------------------------------------------------ POST /transcribe, entry
\* A request arrives with some Authorization header; Depends(verify_token)
\* runs before the handler body.
VerifyToken(r) ==
    /\ pc[r] = "idle"
    /\ UNCHANGED captions
    /\ \E h \in Headers :
          /\ authorization' = [authorization EXCEPT ![r] = h]
          /\ LET status == verify_token(h)
             IN  IF status # 0
                 THEN /\ pc' = [pc EXCEPT ![r] = "rejected"]
                      /\ response' = [response EXCEPT ![r] =
                                        [status |-> status, body |-> AuthDetail(status)]]
                 ELSE /\ pc' = [pc EXCEPT ![r] = "authorized"]
                      /\ UNCHANGED response
    /\ UNCHANGED << shared, files, quota_locals, video_url, groq_error, trace >>

\* -------------------------------------------- main.py transcribe_video
\* The handler body starts with the request's URL: temp_id, video_path; the
\* header stays behind in the dependency.
StartHandler(r) ==
    /\ pc[r] = "authorized"
    /\ UNCHANGED captions
    /\ pc' = [pc EXCEPT ![r] = "download"]
    /\ authorization' = [authorization EXCEPT ![r] = <<>>]
    /\ \E u \in URLs : video_url' = [video_url EXCEPT ![r] = u]
    /\ UNCHANGED << shared, files, quota_locals, groq_error, response, trace >>

\* ydl.download and the os.path.exists check after it.
Download(r) ==
    /\ pc[r] = "download"
    /\ UNCHANGED captions
    /\ \E raised \in BOOLEAN, file \in BOOLEAN :
          /\ mp4' = [mp4 EXCEPT ![r] = file]
          /\ trace' = [trace EXCEPT ![r] =
                         @ \cup {"fetch"} \cup (IF file THEN {"mp4"} ELSE {})]
          /\ IF raised
             THEN /\ groq_error' = [groq_error EXCEPT ![r] = "DownloadError"]
                  /\ pc' = [pc EXCEPT ![r] = "except"]
             ELSE IF ~file
             THEN /\ groq_error' = [groq_error EXCEPT ![r] = "Download failed"]
                  /\ pc' = [pc EXCEPT ![r] = "except"]
             ELSE /\ pc' = [pc EXCEPT ![r] = "convert"]
                  /\ UNCHANGED groq_error
    /\ UNCHANGED << shared, mp3, quota_locals, inputs, response >>

\* (a transcoder check that accepts an empty output file)
ConvertToMp3_NoSizeCheck(r) ==
    /\ pc[r] = "convert"
    /\ UNCHANGED captions
    /\ \E run \in RunResults, out \in FfmpegResults :
          IF run # "ran"
          THEN /\ UNCHANGED mp3
               /\ trace' = [trace EXCEPT ![r] = @ \cup {"transcode"}]
               /\ groq_error' = [groq_error EXCEPT ![r] = run]
               /\ pc' = [pc EXCEPT ![r] = "except"]
          ELSE /\ mp3' = [mp3 EXCEPT ![r] = out]
               /\ trace' = [trace EXCEPT ![r] =
                              @ \cup {"transcode"}
                                \cup (IF out.exists THEN {"mp3"} ELSE {})]
               /\ IF ~out.exists
                  THEN /\ groq_error' = [groq_error EXCEPT ![r] =
                                           "MP3 conversion failed"]
                       /\ pc' = [pc EXCEPT ![r] = "except"]
                  ELSE /\ pc' = [pc EXCEPT ![r] = "file_size"]
                       /\ UNCHANGED groq_error
    /\ UNCHANGED << shared, mp4, quota_locals, inputs, response >>

\* convert_to_mp3: subprocess.run of ffmpeg, which may raise, then the
\* exists / size check.
ConvertToMp3(r) ==
    /\ pc[r] = "convert"
    /\ UNCHANGED captions
    /\ \E run \in RunResults, out \in FfmpegResults :
          IF run # "ran"
          THEN /\ UNCHANGED mp3
               /\ trace' = [trace EXCEPT ![r] = @ \cup {"transcode"}]
               /\ groq_error' = [groq_error EXCEPT ![r] = run]
               /\ pc' = [pc EXCEPT ![r] = "except"]
          ELSE /\ mp3' = [mp3 EXCEPT ![r] = out]
               /\ trace' = [trace EXCEPT ![r] =
                              @ \cup {"transcode"}
                                \cup (IF out.exists THEN {"mp3"} ELSE {})]
               /\ IF ~out.exists \/ out.size = 0
                  THEN /\ groq_error' = [groq_error EXCEPT ![r] =
                                           "MP3 conversion failed"]
                       /\ pc' = [pc EXCEPT ![r] = "except"]
                  ELSE /\ pc' = [pc EXCEPT ![r] = "file_size"]
                       /\ UNCHANGED groq_error
    /\ UNCHANGED << shared, mp4, quota_locals, inputs, response >>

\* (a handler that lets HTTPExceptions through to the caller)
CheckFileSize_Surfaced(r) ==
    /\ pc[r] = "file_size"
    /\ UNCHANGED captions
    /\ IF mp3[r].size > GROQ_MAX_FILE_MB * MB
       THEN /\ response' = [response EXCEPT ![r] =
                              [status |-> 413,
                               body |-> "Audio file exceeds Groq 25MB limit"]]
            /\ pc' = [pc EXCEPT ![r] = "finally"]
       ELSE /\ pc' = [pc EXCEPT ![r] = "probe"]
            /\ UNCHANGED response
    /\ UNCHANGED << shared, files, quota_locals, inputs, groq_error, trace >>

\* (call_groq_transcription without its file-size test)
CheckFileSize_NoCeiling(r) ==
    /\ pc[r] = "file_size"
    /\ UNCHANGED captions
    /\ pc' = [pc EXCEPT ![r] = "probe"]
    /\ UNCHANGED << shared, files, quota_locals, inputs, groq_error,
                    response, trace >>

\* call_groq_transcription: file_size_mb > GROQ_MAX_FILE_MB raises 413.
CheckFileSize(r) ==
    /\ pc[r] = "file_size"
    /\ UNCHANGED captions
    /\ IF mp3[r].size > GROQ_MAX_FILE_MB * MB
       THEN /\ groq_error' = [groq_error EXCEPT ![r] =
                                "Audio file exceeds Groq 25MB limit"]
            /\ pc' = [pc EXCEPT ![r] = "except"]
       ELSE /\ pc' = [pc EXCEPT ![r] = "probe"]
            /\ UNCHANGED groq_error
    /\ UNCHANGED << shared, files, quota_locals, inputs,
                    response, trace >>

\* audio_seconds = get_audio_duration(mp3_path): subprocess.run, which may
\* raise, then the parse of what ffprobe printed.
GetAudioDuration(r) ==
    /\ pc[r] = "probe"
    /\ UNCHANGED captions
    /\ trace' = [trace EXCEPT ![r] = @ \cup {"probe"}]
    /\ \E run \in RunResults, stdout \in ProbeResults :
          IF run # "ran"
          THEN /\ groq_error' = [groq_error EXCEPT ![r] = run]
               /\ pc' = [pc EXCEPT ![r] = "except"]
               /\ UNCHANGED audio_seconds
          ELSE /\ audio_seconds' =
                    [audio_seconds EXCEPT ![r] = get_audio_duration(stdout)]
               /\ pc' = [pc EXCEPT ![r] = "acquire"]
               /\ UNCHANGED groq_error
    /\ UNCHANGED << shared, files, key_idx, after_reset, inputs, response >>

\* ------------------------------------------- check_and_update_limits
\* (check_and_update_limits without the with block)
LockFree_NoLock == TRUE

\* "with usage_lock:" blocks until the lock is free.
LockFree == ~usage_lock

Acquire(r) ==
    /\ pc[r] = "acquire"
    /\ UNCHANGED captions
    /\ LockFree
    /\ usage_lock' = TRUE
    /\ pc' = [pc EXCEPT ![r] = "reset"]
    /\ key_idx' = [key_idx EXCEPT ![r] = 1]
    /\ trace' = [trace EXCEPT ![r] = @ \cup {"quota"}]
    /\ UNCHANGED << now, ticks, usage_stats, files, audio_seconds, after_reset,
                    inputs, groq_error, response >>

\* One turn of "for key in usage_stats.keys(): reset_if_needed(key)".
ResetStep(r) ==
    /\ pc[r] = "reset"
    /\ UNCHANGED captions
    /\ usage_stats' = reset_if_needed(usage_stats, Keys[key_idx[r]], now)
    /\ IF key_idx[r] < Len(Keys)
       THEN /\ key_idx' = [key_idx EXCEPT ![r] = @ + 1]
            /\ UNCHANGED << pc, after_reset >>
       ELSE /\ key_idx' = [key_idx EXCEPT ![r] = 0]
            /\ pc' = [pc EXCEPT ![r] = "check"]
            /\ after_reset' = [after_reset EXCEPT ![r] = Counters(usage_stats')]
    /\ UNCHANGED << now, ticks, usage_lock, files, audio_seconds, inputs,
                    groq_error, response, trace >>

\* (the minute count incremented as soon as its own test passed)
CheckStep_CountFirst(r) ==
    /\ pc[r] = "check"
    /\ UNCHANGED captions
    /\ LET v == FirstViolation(usage_stats, audio_seconds[r])
       IN  IF v # "none"
           THEN /\ groq_error' = [groq_error EXCEPT ![r] = v]
                /\ pc' = [pc EXCEPT ![r] = "raise_429"]
                /\ usage_stats' =
                     IF usage_stats.minute.count < GROQ_LIMITS.rpm
                     THEN [usage_stats EXCEPT !.minute.count = @ + 1]
                     ELSE usage_stats
           ELSE /\ pc' = [pc EXCEPT ![r] = "commit"]
                /\ UNCHANGED << groq_error, usage_stats >>
    /\ UNCHANGED << now, ticks, usage_lock, files, quota_locals, inputs, response, trace >>

\* The four "if ...: raise HTTPException(429)" tests.
CheckStep(r) ==
    /\ pc[r] = "check"
    /\ UNCHANGED captions
    /\ LET v == FirstViolation(usage_stats, audio_seconds[r])
       IN  IF v # "none"
           THEN /\ groq_error' = [groq_error EXCEPT ![r] = v]
                /\ pc' = [pc EXCEPT ![r] = "raise_429"]
           ELSE /\ pc' = [pc EXCEPT ![r] = "commit"]
                /\ UNCHANGED groq_error
    /\ UNCHANGED << shared, files, quota_locals, inputs,
                    response, trace >>

\* The four "+=" statements.
CommitStep(r) ==
    /\ pc[r] = "commit"
    /\ UNCHANGED captions
    /\ usage_stats' = Commit(usage_stats, audio_seconds[r])
    /\ pc' = [pc EXCEPT ![r] = "admitted"]
    /\ UNCHANGED << now, ticks, usage_lock, files, quota_locals, inputs,
                    groq_error, response, trace >>

\* (a lock acquired by hand and not released after the increments)
ReleaseAdmitted_KeepLock(r) ==
    /\ pc[r] = "admitted"
    /\ UNCHANGED captions
    /\ after_reset' = [after_reset EXCEPT ![r] = NoSnapshot]
    /\ pc' = [pc EXCEPT ![r] = "post"]
    /\ UNCHANGED << shared, files, audio_seconds, key_idx,
                    inputs, groq_error, response, trace >>

\* The with block is left by falling off its end: the lock is released.
ReleaseAdmitted(r) ==
    /\ pc[r] = "admitted"
    /\ UNCHANGED captions
    /\ usage_lock' = FALSE
    /\ after_reset' = [after_reset EXCEPT ![r] = NoSnapshot]
    /\ pc' = [pc EXCEPT ![r] = "post"]
    /\ UNCHANGED << now, ticks, usage_stats, files, audio_seconds, key_idx,
                    inputs, groq_error, response, trace >>

\* (a lock released by hand on the admitted path only)
ReleaseRejected_KeepLock(r) ==
    /\ pc[r] = "raise_429"
    /\ UNCHANGED captions
    /\ after_reset' = [after_reset EXCEPT ![r] = NoSnapshot]
    /\ audio_seconds' = [audio_seconds EXCEPT ![r] = 0]
    /\ pc' = [pc EXCEPT ![r] = "except"]
    /\ UNCHANGED << shared, files, key_idx, inputs, groq_error,
                    response, trace >>

\* (a limiter whose rejection is logged and the primary call made anyway)
ReleaseRejected_CallAnyway(r) ==
    /\ pc[r] = "raise_429"
    /\ UNCHANGED captions
    /\ usage_lock' = FALSE
    /\ after_reset' = [after_reset EXCEPT ![r] = NoSnapshot]
    /\ groq_error' = [groq_error EXCEPT ![r] = "none"]
    /\ pc' = [pc EXCEPT ![r] = "post"]
    /\ UNCHANGED << now, ticks, usage_stats, files, audio_seconds, key_idx,
                    inputs, response, trace >>

\* The with block is left by the 429: the lock is released, and the
\* exception unwinds call_groq_transcription into the handler's except.
ReleaseRejected(r) ==
    /\ pc[r] = "raise_429"
    /\ UNCHANGED captions
    /\ usage_lock' = FALSE
    /\ after_reset' = [after_reset EXCEPT ![r] = NoSnapshot]
    /\ audio_seconds' = [audio_seconds EXCEPT ![r] = 0]
    /\ pc' = [pc EXCEPT ![r] = "except"]
    /\ UNCHANGED << now, ticks, usage_stats, files, key_idx, inputs, groq_error, response, trace >>

\* ------------------------------------- call_groq_transcription, the call
\* (a primary call that hands its reservation back when it fails)
PostToGroq_Refund(r) ==
    /\ pc[r] = "post"
    /\ UNCHANGED captions
    /\ trace' = [trace EXCEPT ![r] = @ \cup {"primary"}]
    /\ audio_seconds' = [audio_seconds EXCEPT ![r] = 0]
    /\ \E out \in {"ok", "Timeout", "Groq API error"} :
          IF out = "ok"
          THEN /\ pc' = [pc EXCEPT ![r] = "normalize"]
               /\ UNCHANGED << groq_error, usage_stats >>
          ELSE /\ groq_error' = [groq_error EXCEPT ![r] = out]
               /\ pc' = [pc EXCEPT ![r] = "except"]
               /\ usage_stats' =
                    [usage_stats EXCEPT
                       !.minute.count = IF @ > 0 THEN @ - 1 ELSE 0,
                       !.day.count = IF @ > 0 THEN @ - 1 ELSE 0]
    /\ UNCHANGED << now, ticks, usage_lock, files, key_idx, after_reset, inputs,
                    response >>

\* requests.post, the status test and resp.json().
PostToGroq(r) ==
    /\ pc[r] = "post"
    /\ UNCHANGED captions
    /\ trace' = [trace EXCEPT ![r] = @ \cup {"primary"}]
    /\ audio_seconds' = [audio_seconds EXCEPT ![r] = 0]
    /\ \E out \in {"ok", "Timeout", "Groq API error"} :
          IF out = "ok"
          THEN /\ pc' = [pc EXCEPT ![r] = "normalize"]
               /\ UNCHANGED groq_error
          ELSE /\ groq_error' = [groq_error EXCEPT ![r] = out]
               /\ pc' = [pc EXCEPT ![r] = "except"]
    /\ UNCHANGED << shared, files, key_idx, after_reset, inputs,
                    response >>

\* The segments comprehension and the return of the primary result; a
\* payload whose segments lack a key raises KeyError.
NormalizePrimary_FallThrough(r) ==
    /\ pc[r] = "normalize"
    /\ UNCHANGED captions
    /\ pc' = [pc EXCEPT ![r] = "except"]
    /\ UNCHANGED << shared, files, quota_locals, inputs, groq_error, response,
                    trace >>

NormalizePrimary(r) ==
    /\ pc[r] = "normalize"
    /\ UNCHANGED captions
    /\ \E wellformed \in BOOLEAN :
          IF wellformed
          THEN /\ response' = [response EXCEPT ![r] =
                                 [status |-> 200, body |-> "groq_whisper"]]
               /\ pc' = [pc EXCEPT ![r] = "finally"]
               /\ UNCHANGED groq_error
          ELSE /\ groq_error' = [groq_error EXCEPT ![r] = "KeyError"]
               /\ pc' = [pc EXCEPT ![r] = "except"]
               /\ UNCHANGED response
    /\ UNCHANGED << shared, files, quota_locals, inputs, trace >>

\* ------------------------------------------------ the fallback branch
UnifiedFailure ==
    [status |-> 500,
     body |-> "Transcription failed: Groq and YouTube captions unavailable"]

\* (a fallback branch whose inner try starts after extract_video_id: the
\* ValueError leaves the handler uncaught)
ExtractVideoId_RawError(r) ==
    /\ pc[r] = "except"
    /\ UNCHANGED captions
    /\ IF extract_video_id(video_url[r]) = <<>>
       THEN /\ response' = [response EXCEPT ![r] =
                              [status |-> 500, body |-> "Invalid YouTube URL"]]
            /\ trace' = [trace EXCEPT ![r] = @ \cup {"except", "except_inner"}]
            /\ groq_error' = [groq_error EXCEPT ![r] = "none"]
            /\ pc' = [pc EXCEPT ![r] = "finally"]
       ELSE /\ pc' = [pc EXCEPT ![r] = "get_transcript"]
            /\ trace' = [trace EXCEPT ![r] = @ \cup {"except"}]
            /\ UNCHANGED << response, groq_error >>
    /\ UNCHANGED << shared, files, quota_locals, inputs >>

\* "except Exception as groq_error": extract_video_id(req.video_url).  Its
\* ValueError is caught by the inner except, which raises the unified 500;
\* both except blocks are then left and groq_error is unbound.
ExtractVideoId(r) ==
    /\ pc[r] = "except"
    /\ UNCHANGED captions
    /\ IF extract_video_id(video_url[r]) = <<>>
       THEN /\ response' = [response EXCEPT ![r] = UnifiedFailure]
            /\ trace' = [trace EXCEPT ![r] = @ \cup {"except", "except_inner"}]
            /\ groq_error' = [groq_error EXCEPT ![r] = "none"]
            /\ pc' = [pc EXCEPT ![r] = "finally"]
       ELSE /\ pc' = [pc EXCEPT ![r] = "get_transcript"]
            /\ trace' = [trace EXCEPT ![r] = @ \cup {"except"}]
            /\ UNCHANGED << response, groq_error >>
    /\ UNCHANGED << shared, files, quota_locals, inputs >>

\* YouTubeTranscriptApi.get_transcript: the fallback result is returned, or
\* the inner except turns any exception into the unified 500.
GetTranscript(r) ==
    /\ pc[r] = "get_transcript"
    /\ UNCHANGED captions
    /\ \E out \in {"ok", "TranscriptsDisabled", "NoTranscriptFound",
                   "ConnectionError"} :
          IF out = "ok"
          THEN /\ response' = [response EXCEPT ![r] =
                                 [status |-> 200, body |-> "youtube_captions"]]
               /\ trace' = [trace EXCEPT ![r] = @ \cup {"caption"}]
          ELSE /\ response' = [response EXCEPT ![r] = UnifiedFailure]
               /\ trace' = [trace EXCEPT ![r] = @ \cup {"caption", "except_inner"}]
    /\ groq_error' = [groq_error EXCEPT ![r] = "none"]
    /\ pc' = [pc EXCEPT ![r] = "finally"]
    /\ UNCHANGED << shared, files, quota_locals, inputs >>

\* (a finally block that forgets the transcoded file)
CleanupPaths_VideoOnly == {"mp4"}

\* finally: the paths removed when they exist
CleanupPaths == {"mp4", "mp3"}

\* (a finally block that calls os.remove without asking os.path.exists: the
\* FileNotFoundError of a missing file replaces the handler's outcome)
Finally_Unguarded(r) ==
    /\ pc[r] = "finally"
    /\ UNCHANGED captions
    /\ mp4' = [mp4 EXCEPT ![r] = FALSE]
    /\ mp3' = [mp3 EXCEPT ![r] = IF mp4[r] THEN NoFile ELSE @]
    /\ IF mp4[r] /\ mp3[r].exists
       THEN /\ pc' = [pc EXCEPT ![r] =
                        IF response[r].status = 200 THEN "done" ELSE "failed"]
            /\ UNCHANGED response
       ELSE /\ pc' = [pc EXCEPT ![r] = "failed"]
            /\ response' = [response EXCEPT ![r] =
                              [status |-> 500, body |-> "Internal Server Error"]]
    /\ video_url' = [video_url EXCEPT ![r] = <<>>]
    /\ UNCHANGED << shared, quota_locals, authorization, groq_error, trace >>

\* The finally block, then the response leaves the handler.
Finally(r) ==
    /\ pc[r] = "finally"
    /\ UNCHANGED captions
    /\ mp4' = [mp4 EXCEPT ![r] = IF "mp4" \in CleanupPaths THEN FALSE ELSE @]
    /\ mp3' = [mp3 EXCEPT ![r] = IF "mp3" \in CleanupPaths THEN NoFile ELSE @]
    /\ pc' = [pc EXCEPT ![r] = IF response[r].status = 200 THEN "done" ELSE "failed"]
    /\ video_url' = [video_url EXCEPT ![r] = <<>>]
    /\ UNCHANGED << shared, quota_locals, authorization, groq_error, response,
                    trace >>

Handler(r) ==
    \/ VerifyToken(r) \/ StartHandler(r)
    \/ Download(r) \/ ConvertToMp3(r) \/ CheckFileSize(r) \/ GetAudioDuration(r)
    \/ Acquire(r) \/ ResetStep(r) \/ CheckStep(r) \/ CommitStep(r)
    \/ ReleaseAdmitted(r) \/ ReleaseRejected(r)
    \/ PostToGroq(r) \/ NormalizePrimary(r)
    \/ ExtractVideoId(r) \/ GetTranscript(r) \/ Finally(r)

Next == Tick \/ \E r \in Req : Handler(r)

Spec == Init /\ [][Next]_vars

\* Every external call returns or raises, a thread that can run does run,
\* and a thread waiting for usage_lock gets it if it is free again and again.
Fairness ==
    \A r \in Req : WF_vars(Handler(r)) /\ SF_vars(Acquire(r))

\* The requests alone, on a server one request short of its request limits
\* and one hour of audio short of its audio limits, over a span in which the
\* clock stands still.
LiveInit ==
    /\ Init
    /\ usage_stats.minute.count = GROQ_LIMITS.rpm - 1
    /\ usage_stats.hour_audio.seconds = GROQ_LIMITS.ash - 3600

LiveNext == \E r \in Req : Handler(r)

LiveSpec == LiveInit /\ [][LiveNext]_vars /\ Fairness

\* --------------------------------------------- app.py transcribe_video
\* The local-engine variant: the same dependency and fallback, an in-process
\* model as primary engine, no transcode, no limiter and no finally block.
\* Its except names whisper_error what main.py names groq_error.
L_UnifiedFailure ==
    [status |-> 500,
     body |-> "Transcription failed: Whisper and YouTube captions unavailable"]

L_StartHandler(r) ==
    /\ pc[r] = "authorized"
    /\ UNCHANGED captions
    /\ pc' = [pc EXCEPT ![r] = "l_load_model"]
    /\ authorization' = [authorization EXCEPT ![r] = <<>>]
    /\ \E u \in URLs : video_url' = [video_url EXCEPT ![r] = u]
    /\ UNCHANGED << shared, files, quota_locals, groq_error, response, trace >>

\* whisper.load_model
L_LoadModel(r) ==
    /\ pc[r] = "l_load_model"
    /\ UNCHANGED captions
    /\ \E raised \in BOOLEAN :
          IF raised
          THEN /\ groq_error' = [groq_error EXCEPT ![r] = "load_model error"]
               /\ pc' = [pc EXCEPT ![r] = "l_except"]
          ELSE /\ pc' = [pc EXCEPT ![r] = "l_download"]
               /\ UNCHANGED groq_error
    /\ UNCHANGED << shared, files, quota_locals, inputs, response, trace >>

\* ydl.download; app.py does not test that the file exists.
L_Download(r) ==
    /\ pc[r] = "l_download"
    /\ UNCHANGED captions
    /\ \E raised \in BOOLEAN, file \in BOOLEAN :
          /\ mp4' = [mp4 EXCEPT ![r] = file]
          /\ trace' = [trace EXCEPT ![r] =
                         @ \cup {"fetch"} \cup (IF file THEN {"mp4"} ELSE {})]
          /\ IF raised
             THEN /\ groq_error' = [groq_error EXCEPT ![r] = "DownloadError"]
                  /\ pc' = [pc EXCEPT ![r] = "l_except"]
             ELSE /\ pc' = [pc EXCEPT ![r] = "l_transcribe"]
                  /\ UNCHANGED groq_error
    /\ UNCHANGED << shared, mp3, quota_locals, inputs, response >>

\* model.transcribe(video_path): raises when the file is missing, and may
\* raise when it is there.
L_Transcribe(r) ==
    /\ pc[r] = "l_transcribe"
    /\ UNCHANGED captions
    /\ trace' = [trace EXCEPT ![r] = @ \cup {"primary"}]
    /\ \E raised \in BOOLEAN :
          IF raised \/ ~mp4[r]
          THEN /\ groq_error' = [groq_error EXCEPT ![r] = "transcribe error"]
               /\ pc' = [pc EXCEPT ![r] = "l_except"]
          ELSE /\ pc' = [pc EXCEPT ![r] = "l_remove"]
               /\ UNCHANGED groq_error
    /\ UNCHANGED << shared, files, quota_locals, inputs, response >>

\* os.remove(video_path), reached only after transcribe returned.
L_Remove(r) ==
    /\ pc[r] = "l_remove"
    /\ UNCHANGED captions
    /\ IF mp4[r]
       THEN /\ mp4' = [mp4 EXCEPT ![r] = FALSE]
            /\ pc' = [pc EXCEPT ![r] = "l_normalize"]
            /\ UNCHANGED groq_error
       ELSE /\ groq_error' = [groq_error EXCEPT ![r] = "FileNotFoundError"]
            /\ pc' = [pc EXCEPT ![r] = "l_except"]
            /\ UNCHANGED mp4
    /\ UNCHANGED << shared, mp3, quota_locals, inputs, response, trace >>

\* The segments comprehension and the return of the primary result.
L_Normalize(r) ==
    /\ pc[r] = "l_normalize"
    /\ UNCHANGED captions
    /\ \E wellformed \in BOOLEAN :
          IF wellformed
          THEN /\ response' = [response EXCEPT ![r] =
                                 [status |-> 200, body |-> "whisper"]]
               /\ pc' = [pc EXCEPT ![r] = "done"]
               /\ video_url' = [video_url EXCEPT ![r] = <<>>]
               /\ UNCHANGED groq_error
          ELSE /\ groq_error' = [groq_error EXCEPT ![r] = "KeyError"]
               /\ pc' = [pc EXCEPT ![r] = "l_except"]
               /\ UNCHANGED << response, video_url >>
    /\ UNCHANGED << shared, files, quota_locals, authorization, trace >>

\* "except Exception as whisper_error": extract_video_id(req.video_url).
L_ExtractVideoId(r) ==
    /\ pc[r] = "l_except"
    /\ UNCHANGED captions
    /\ IF extract_video_id(video_url[r]) = <<>>
       THEN /\ response' = [response EXCEPT ![r] = L_UnifiedFailure]
            /\ trace' = [trace EXCEPT ![r] = @ \cup {"except", "except_inner"}]
            /\ groq_error' = [groq_error EXCEPT ![r] = "none"]
            /\ video_url' = [video_url EXCEPT ![r] = <<>>]
            /\ pc' = [pc EXCEPT ![r] = "failed"]
       ELSE /\ pc' = [pc EXCEPT ![r] = "l_get_transcript"]
            /\ trace' = [trace EXCEPT ![r] = @ \cup {"except"}]
            /\ UNCHANGED << response, groq_error, video_url >>
    /\ UNCHANGED << shared, files, quota_locals, authorization >>

\* YouTubeTranscriptApi.get_transcript; the handler returns or raises, and
\* nothing runs after it.
L_GetTranscript(r) ==
    /\ pc[r] = "l_get_transcript"
    /\ UNCHANGED captions
    /\ \E out \in {"ok", "TranscriptsDisabled", "NoTranscriptFound",
                   "ConnectionError"} :
          IF out = "ok"
          THEN /\ response' = [response EXCEPT ![r] =
                                 [status |-> 200, body |-> "youtube_captions"]]
               /\ trace' = [trace EXCEPT ![r] = @ \cup {"caption"}]
               /\ pc' = [pc EXCEPT ![r] = "done"]
          ELSE /\ response' = [response EXCEPT ![r] = L_UnifiedFailure]
               /\ trace' = [trace EXCEPT ![r] = @ \cup {"caption", "except_inner"}]
               /\ pc' = [pc EXCEPT ![r] = "failed"]
    /\ groq_error' = [groq_error EXCEPT ![r] = "none"]
    /\ video_url' = [video_url EXCEPT ![r] = <<>>]
    /\ UNCHANGED << shared, files, quota_locals, authorization >>

L_Handler(r) ==
    \/ VerifyToken(r) \/ L_StartHandler(r)
    \/ L_LoadModel(r) \/ L_Download(r) \/ L_Transcribe(r) \/ L_Remove(r)
    \/ L_Normalize(r) \/ L_ExtractVideoId(r) \/ L_GetTranscript(r)

NextLocal == \E r \in Req : L_Handler(r)

\* The local-engine server
SpecLocal == Init /\ [][NextLocal]_vars

\* ------------------------------------------------- segment normalisation
\* Times are floats in the source; the model counts them in units of which
\* TicksPerSecond make a second, fractions that floats add exactly.
TicksPerSecond == 2

DigitChars == << "0", "1", "2", "3", "4", "5", "6", "7", "8", "9" >>

\* "%d" of a natural number
RECURSIVE Dec(_)
Dec(n) ==
    IF n < 10 THEN << DigitChars[n + 1] >>
    ELSE Dec(n \div 10) \o << DigitChars[(n % 10) + 1] >>

\* "%02d" of a number below 100
Pad2(n) == << DigitChars[(n \div 10) + 1], DigitChars[(n % 10) + 1] >>

\* format_time: str(datetime.timedelta(seconds=int(seconds))).  int() drops
\* the fraction towards zero; timedelta keeps days apart from the seconds of
\* the day, and str() puts the days in front when there are any.
format_time(seconds) ==
    LET whole == IF seconds >= 0 THEN seconds \div TicksPerSecond
                 ELSE 0 - ((0 - seconds) \div TicksPerSecond)
        days == IF whole >= 0 THEN whole \div 86400
                ELSE 0 - ((86399 - whole) \div 86400)
        rest == whole - days * 86400
        hms == Dec(rest \div 3600) \o << ":" >> \o Pad2((rest \div 60) % 60)
                 \o << ":" >> \o Pad2(rest % 60)
        absdays == IF days < 0 THEN 0 - days ELSE days
        prefix == (IF days < 0 THEN << "-" >> ELSE << >>) \o Dec(absdays)
                    \o << " ", "d", "a", "y" >>
                    \o (IF absdays # 1 THEN << "s" >> ELSE << >>)
                    \o << ",", " " >>
    IN  IF days # 0 THEN prefix \o hms ELSE hms

\* The characters str.strip() removes, those str.isspace() holds of: U+0009
\* to U+000D, U+001C to U+001F, the space, U+0085, U+00A0, U+1680, U+2000
\* to U+200A, U+2028, U+2029, U+202F, U+205F and U+3000.  A character
\* beyond U+00FF, which a string literal of this module cannot hold, is
\* written as the one element "U+" followed by its four hexadecimal digits.
Whitespace ==
    { "\t", "\n", "\r", "\f", " ",
      "", "", "", "", "", "", " ",
      "U+1680", "U+2000", "U+2001", "U+2002", "U+2003", "U+2004",
      "U+2005", "U+2006", "U+2007", "U+2008", "U+2009", "U+200A",
      "U+2028", "U+2029", "U+202F", "U+205F", "U+3000" }

\* str.strip()
RECURSIVE strip(_)
strip(text) ==
    IF text = << >> THEN << >>
    ELSE IF Head(text) \in Whitespace THEN strip(Tail(text))
    ELSE IF text[Len(text)] \in Whitespace
         THEN strip(SubSeq(text, 1, Len(text) - 1))
    ELSE text

\* (end times made of the separately truncated start and duration)
FallbackSegments_AddAfter(t) ==
    [i \in 1 .. Len(t) |->
        [start |-> format_time(t[i].start),
         end |-> format_time(
                    (t[i].start \div TicksPerSecond) * TicksPerSecond
                    + (t[i].duration \div TicksPerSecond) * TicksPerSecond),
         text |-> strip(t[i].text)]]

\* The comprehension of the fallback branch over the caption entries
FallbackSegments(t) ==
    [i \in 1 .. Len(t) |->
        [start |-> format_time(t[i].start),
         end |-> format_time(t[i].start + t[i].duration),
         text |-> strip(t[i].text)]]

\* The comprehension of the primary path over result.get("segments", [])
PrimarySegments(segs) ==
    [i \in 1 .. Len(segs) |->
        [start |-> format_time(segs[i].start),
         end |-> format_time(segs[i].end),
         text |-> strip(segs[i].text)]]

\* Caption entries: offsets and lengths in ticks, from the first frame to ten
\* hours in, whole and fractional
MaxCaptions == 2

CaptionStarts == { 0, 2, 3, 119, 7199, 72000 }
CaptionDurations == { 0, 1, 3, 5 }
CaptionTexts == { << "h", "i" >>, << "U+1680", " ", "h", "i", "\r", "\n" >> }

CaptionEntries ==
    [text : CaptionTexts, start : CaptionStarts, duration : CaptionDurations]

RECURSIVE SeqsUpTo(_, _)
SeqsUpTo(S, n) ==
    IF n = 0 THEN { << >> }
    ELSE LET shorter == SeqsUpTo(S, n - 1)
         IN  shorter \cup { Append(q, e) : q \in { x \in shorter : Len(x) = n - 1 },
                                           e \in S }

\* The same speech as the primary engine reports it: start and end
AsEngineSegments(t) ==
    [i \in 1 .. Len(t) |->
        [text |-> t[i].text, start |-> t[i].start,
         end |-> t[i].start + t[i].duration]]

\* One handler with both sources' answers at hand; the rest of the server
\* stands still.
SegmentsInit ==
    /\ now = 0
    /\ ticks = 0
    /\ usage_stats = FreshUsage(0)
    /\ usage_lock = FALSE
    /\ pc = [r \in Req |-> "idle"]
    /\ authorization = [r \in Req |-> <<>>]
    /\ video_url = [r \in Req |-> <<>>]
    /\ mp4 = [r \in Req |-> FALSE]
    /\ mp3 = [r \in Req |-> NoFile]
    /\ audio_seconds = [r \in Req |-> 0]
    /\ key_idx = [r \in Req |-> 0]
    /\ groq_error = [r \in Req |-> "none"]
    /\ response = [r \in Req |-> NoResponse]
    /\ trace = [r \in Req |-> {}]
    /\ after_reset = [r \in Req |-> NoSnapshot]
    /\ transcript \in SeqsUpTo(CaptionEntries, MaxCaptions)
    /\ result = AsEngineSegments(transcript)
    /\ segments = << >>
    /\ source = "none"

hosted == << now, ticks, usage_stats, usage_lock, pc, authorization, video_url,
             mp4, mp3, audio_seconds, key_idx, groq_error, response, trace,
             after_reset >>

\* Lines 162-175: the primary result's segments, source "groq_whisper".
NormalizeSegments ==
    /\ source = "none"
    /\ segments' = PrimarySegments(result)
    /\ source' = "groq_whisper"
    /\ UNCHANGED << hosted, transcript, result >>

\* Lines 182-197: the caption entries' segments, source "youtube_captions".
CaptionSegments ==
    /\ source = "none"
    /\ segments' = FallbackSegments(transcript)
    /\ source' = "youtube_captions"
    /\ UNCHANGED << hosted, transcript, result >>

NextSegments == NormalizeSegments \/ CaptionSegments

SpecSegments == SegmentsInit /\ [][NextSegments]_vars

\* ================================================================ claims
InCriticalSection(r) ==
    pc[r] \in {"reset", "check", "commit", "admitted", "raise_429"}

\* current + increment <= limit in all four dimensions, for counters c
Fits(c, audio) ==
    /\ c.minute + 1 <= 20
    /\ c.day + 1 <= 2000
    /\ c.hour_audio + audio <= 7200
    /\ c.day_audio + audio <= 28800

\* C1: under every interleaving of requests and clock advances, each of the
\* four usage counters stays within its limit: minute count <= 20, day count
\* <= 2000, hour audio seconds <= 7200, day audio seconds <= 28800.
C1_WithinLimits ==
    /\ usage_stats.minute.count <= 20
    /\ usage_stats.day.count <= 2000
    /\ usage_stats.hour_audio.seconds <= 7200
    /\ usage_stats.day_audio.seconds <= 28800

\* Two requests went through admission with room for one: one was admitted
\* and filled the minute window, the other was turned away.
C1_Witness ==
    \E r1 \in Req, r2 \in Req :
        /\ r1 # r2
        /\ pc[r1] = "post"
        /\ pc[r2] = "except"
        /\ groq_error[r2] = "Groq RPM limit reached"
        /\ usage_stats.minute.count = 20

\* C2: a rejected call changes no counter: when check_and_update_limits
\* raises, all four counters equal their values as the reset loop left them.
C2_AllOrNothing ==
    \A r \in Req :
        pc[r] = "raise_429" => Counters(usage_stats) = after_reset[r]

\* A call rejected for audio seconds while both request counts had room.
C2_Witness ==
    \E r \in Req :
        /\ pc[r] = "raise_429"
        /\ groq_error[r] \in {"Groq ASH limit reached", "Groq ASD limit reached"}
        /\ after_reset[r].minute < 20
        /\ after_reset[r].day < 2000
        /\ audio_seconds[r] > 0

\* C3: the call is admitted if and only if current + increment <= limit holds
\* in all four dimensions after the resets (increment 1 for the two request
\* counts, audio_seconds for the two audio totals), and on admission every
\* counter has grown by exactly its increment.
C3_AdmitIffFits ==
    \A r \in Req :
        /\ pc[r] = "raise_429" => ~Fits(after_reset[r], audio_seconds[r])
        /\ pc[r] = "commit" => Fits(after_reset[r], audio_seconds[r])
        /\ pc[r] = "admitted" =>
              /\ Fits(after_reset[r], audio_seconds[r])
              /\ usage_stats.minute.count = after_reset[r].minute + 1
              /\ usage_stats.day.count = after_reset[r].day + 1
              /\ usage_stats.hour_audio.seconds =
                    after_reset[r].hour_audio + audio_seconds[r]
              /\ usage_stats.day_audio.seconds =
                    after_reset[r].day_audio + audio_seconds[r]

\* An admitted call that brought counters exactly to their limits.
C3_Witness ==
    \E r \in Req :
        /\ pc[r] = "admitted"
        /\ audio_seconds[r] = 3600
        /\ usage_stats.hour_audio.seconds = 7200
        /\ usage_stats.day_audio.seconds = 28800
        /\ usage_stats.minute.count = 20

\* The window length the claim names for each key
C4_Length(key) ==
    CASE key = "minute" -> 60
      [] key = "hour_audio" -> 3600
      [] key = "day" -> 86400
      [] key = "day_audio" -> 86400

\* C4: each turn of the reset loop that precedes the admission check zeroes
\* the counter of a window whose end time has passed and starts a full new
\* window at the current time, however long ago the window ended; a window
\* that has not expired, and every other window, is left as it was.  The
\* checks start only after the loop has visited all four windows.
C4_WindowReset ==
    [][ \A r \in Req :
          /\ (pc[r] = "reset" /\ key_idx'[r] # key_idx[r]) =>
                \A k \in KeySet :
                    IF k = Keys[key_idx[r]] /\ now > usage_stats[k].reset
                    THEN /\ Counter(usage_stats', k) = 0
                         /\ usage_stats'[k].reset = now + C4_Length(k)
                    ELSE usage_stats'[k] = usage_stats[k]
          /\ (pc[r] # "check" /\ pc'[r] = "check") =>
                pc[r] = "reset" /\ key_idx[r] = 4
      ]_vars

\* A day after start-up, with no admission in between: the loop has zeroed a
\* day window that held 1999 or 2000 requests and a minute window that
\* ended 86370 seconds earlier.
C4_Witness ==
    \E r \in Req :
        /\ pc[r] = "check"
        /\ now = 86400
        /\ usage_stats.day = [count |-> 0, reset |-> 172800]
        /\ usage_stats.minute = [count |-> 0, reset |-> 86460]

\* C5: an authorized request ends in exactly one of primary success,
\* fallback success or the unified failure; the fallback branch is entered
\* only with a primary-chain error caught, the caption adapter is never
\* invoked after the primary chain succeeded, and the unified failure is
\* returned only after both the primary chain and the fallback failed.
C5_ExactlyOneOutcome ==
    \A r \in Req :
        /\ pc[r] \in {"finally", "done", "failed"} =>
              response[r] \in { [status |-> 200, body |-> "groq_whisper"],
                                [status |-> 200, body |-> "youtube_captions"],
                                UnifiedFailure }
        /\ pc[r] \notin {"finally", "done", "failed", "rejected"} =>
              response[r] = NoResponse
        /\ pc[r] = "done" => response[r].status = 200
        /\ pc[r] = "failed" => response[r] = UnifiedFailure
        /\ pc[r] \in {"except", "get_transcript"} => groq_error[r] # "none"
        /\ "caption" \in trace[r] => "except" \in trace[r]
        /\ response[r].body = "groq_whisper" =>
              /\ "primary" \in trace[r]
              /\ trace[r] \cap {"except", "caption", "except_inner"} = {}
        /\ response[r].body = "youtube_captions" =>
              /\ {"except", "caption"} \subseteq trace[r]
              /\ "except_inner" \notin trace[r]
        /\ response[r] = UnifiedFailure =>
              {"except", "except_inner"} \subseteq trace[r]

\* One request returned the primary result while another ended in the
\* unified failure after its caption call failed.
C5_Witness ==
    \E r1 \in Req, r2 \in Req :
        /\ pc[r1] = "done"
        /\ response[r1].body = "groq_whisper"
        /\ pc[r2] = "failed"
        /\ "caption" \in trace[r2]

\* C6: with every external call returning or failing and a fair scheduler,
\* every accepted request eventually reaches DONE or FAILED, a request
\* waiting for the quota lock included.
C6_Termination ==
    \A r \in Req : (pc[r] = "authorized") ~> (pc[r] \in {"done", "failed"})

\* A request waits to enter the critical section while another one, inside
\* it, is being rejected.
C6_Witness ==
    \E r1 \in Req, r2 \in Req :
        /\ r1 # r2
        /\ pc[r1] = "raise_429"
        /\ usage_lock
        /\ pc[r2] = "acquire"

\* C7: no error of the primary chain reaches the caller: while such an error
\* is bound the request is on its way into, or inside, the fallback branch
\* and nothing has been answered yet, and the only error an authorized
\* caller can receive is the unified status-500 response, raised after the
\* fallback failed as well.
C7_PrimaryErrorsCaught ==
    \A r \in Req :
        /\ groq_error[r] # "none" =>
              /\ pc[r] \in {"raise_429", "except", "get_transcript"}
              /\ response[r] = NoResponse
        /\ pc[r] \notin {"idle", "authorized", "rejected"} =>
              /\ response[r].status \in {0, 200, 500}
              /\ response[r].status = 500 =>
                    /\ response[r] = UnifiedFailure
                    /\ {"except", "except_inner"} \subseteq trace[r]

\* Scenario C: the limiter rejected the request, the fallback failed too,
\* and the caller got the unified failure.
C7_Witness ==
    \E r \in Req :
        /\ pc[r] = "failed"
        /\ response[r] = UnifiedFailure
        /\ "quota" \in trace[r]
        /\ "primary" \notin trace[r]

\* C8: in the hosted variant, when a request has reached DONE or FAILED by
\* any path, neither <id>.mp4 nor <id>.mp3 exists any longer.
C8_ArtifactsRemoved ==
    \A r \in Req :
        pc[r] \in {"done", "failed"} => ~mp4[r] /\ ~mp3[r].exists

\* A request that had written both files ended in the unified failure.
C8_Witness ==
    \E r \in Req :
        /\ pc[r] = "failed"
        /\ {"mp4", "mp3"} \subseteq trace[r]

\* C9: in the local-engine variant the fetched file is gone on every exit
\* path of the request: after a primary result, a fallback result or the
\* unified error, <id>.mp4 no longer exists.
C9_FetchedFileDeleted ==
    \A r \in Req :
        pc[r] \in {"done", "failed"} => ~mp4[r]

\* The token of a header that starts with "Bearer ": the text after the
\* prefix up to the next space
C10_Token(h) ==
    LET rest == SubSeq(h, Len(BearerPrefix) + 1, Len(h))
        spaces == { i \in 1 .. Len(rest) : rest[i] = " " }
        stop == IF spaces = {} THEN Len(rest) + 1
                ELSE CHOOSE i \in spaces : \A j \in spaces : i <= j
    IN  SubSeq(rest, 1, stop - 1)

\* C10: a request whose header does not start with "Bearer " is rejected with
\* 401 and one whose token differs from the configured token with 403, before
\* any work: a rejected request has fetched, transcoded, probed, asked the
\* limiter, called the engine or the caption adapter never, has created no
\* file, and its rejection changes no usage counter; a request that passes
\* carries the configured token.
C10_AuthBeforeWork ==
    /\ [](\A r \in Req :
            /\ authorization[r] # <<>> => pc[r] \in {"rejected", "authorized"}
            /\ pc[r] = "authorized" =>
                  /\ StartsWith(authorization[r], BearerPrefix)
                  /\ C10_Token(authorization[r]) = API_TOKEN
                  /\ trace[r] = {}
            /\ pc[r] = "rejected" =>
                  /\ \/ /\ response[r].status = 401
                        /\ ~StartsWith(authorization[r], BearerPrefix)
                     \/ /\ response[r].status = 403
                        /\ StartsWith(authorization[r], BearerPrefix)
                        /\ C10_Token(authorization[r]) # API_TOKEN
                  /\ trace[r] = {}
                  /\ ~mp4[r] /\ ~mp3[r].exists
                  /\ groq_error[r] = "none")
    /\ [][ \A r \in Req :
             /\ (pc[r] = "idle" /\ pc'[r] = "rejected") =>
                   UNCHANGED << usage_stats, usage_lock, files, trace >>
             /\ pc[r] = "rejected" => pc'[r] = "rejected"
         ]_vars

\* One request was rejected with 401 and another with 403.
C10_Witness ==
    \E r1 \in Req, r2 \in Req :
        /\ pc[r1] = "rejected" /\ response[r1].status = 401
        /\ pc[r2] = "rejected" /\ response[r2].status = 403

\* The errors of the media fetch and of the audio transcode
C11_FetchOrTranscodeErrors ==
    {"DownloadError", "Download failed", "MP3 conversion failed"}

\* C11: a request whose media fetch or audio transcode failed (a missing or
\* zero-size transcoded file included) goes straight to the fallback branch:
\* it never probes, never enters check_and_update_limits, never calls the
\* primary engine, and none of its steps changes a usage counter.
C11_FailureSkipsQuota ==
    /\ [](\A r \in Req :
            /\ groq_error[r] \in C11_FetchOrTranscodeErrors =>
                  /\ pc[r] \in {"except", "get_transcript"}
                  /\ trace[r] \cap {"probe", "quota", "primary"} = {}
            /\ (/\ pc[r] \in {"except", "get_transcript", "finally"}
                /\ \/ ~mp4[r]
                   \/ ~mp3[r].exists
                   \/ mp3[r].size = 0) =>
                  trace[r] \cap {"probe", "quota", "primary"} = {}
            /\ (/\ pc[r] \in {"done", "failed"}
                /\ \/ "mp4" \notin trace[r]
                   \/ "mp3" \notin trace[r]) =>
                  trace[r] \cap {"probe", "quota", "primary"} = {})
    /\ [][ \A r \in Req :
             (pc'[r] # pc[r] /\ "quota" \notin trace'[r]) =>
                 UNCHANGED << usage_stats, usage_lock >>
         ]_vars

\* Scenario B: the transcoder left an empty file, the captions were returned,
\* and meanwhile another request had been admitted.
C11_Witness ==
    \E r1 \in Req, r2 \in Req :
        /\ pc[r1] = "finally"
        /\ mp4[r1]
        /\ mp3[r1] = [exists |-> TRUE, size |-> 0]
        /\ response[r1].body = "youtube_captions"
        /\ pc[r2] = "post"

\* C12: a request that reaches the fallback branch with a URL holding no
\* 11-character video identifier never invokes the caption adapter and ends
\* with the unified status-500 response, the very response of a request whose
\* caption call failed; no other status-500 body reaches a caller.
C12_InvalidUrlUnified ==
    \A r \in Req :
        /\ pc[r] = "get_transcript" => extract_video_id(video_url[r]) # <<>>
        /\ (/\ pc[r] = "finally"
            /\ "except" \in trace[r]
            /\ extract_video_id(video_url[r]) = <<>>) =>
              /\ "caption" \notin trace[r]
              /\ response[r] = UnifiedFailure
        /\ (/\ pc[r] \in {"finally", "done", "failed"}
            /\ "except" \in trace[r]
            /\ "caption" \notin trace[r]) =>
              response[r] = UnifiedFailure
        /\ response[r].status = 500 => response[r] = UnifiedFailure

\* Scenario D next to a caption failure: one request with an unusable URL
\* and one whose caption call failed hold the same response.
C12_Witness ==
    \E r1 \in Req, r2 \in Req :
        /\ pc[r1] = "finally"
        /\ "except" \in trace[r1]
        /\ extract_video_id(video_url[r1]) = <<>>
        /\ pc[r2] = "failed"
        /\ "caption" \in trace[r2]
        /\ response[r1] = response[r2]

\* C13: committed increments are never reversed.  In every step each counter
\* either does not decrease or is zeroed because its window had expired; and
\* no step a request takes after leaving check_and_update_limits (the primary
\* call, its failure, the fallback, the cleanup) changes a counter.
C13_NoRollback ==
    [][ /\ \A k \in KeySet :
             \/ Counter(usage_stats', k) >= Counter(usage_stats, k)
             \/ /\ Counter(usage_stats', k) = 0
                /\ now > usage_stats[k].reset
                /\ usage_stats'[k].reset = now + WindowLength(k)
        /\ \A r \in Req :
             (/\ pc[r] \in {"post", "normalize", "except", "get_transcript",
                            "finally"}
              /\ pc'[r] # pc[r]) => usage_stats' = usage_stats
      ]_vars

\* The only request so far was admitted with an hour of audio, its primary
\* call failed, the fallback failed, and the counters still hold its
\* increments.
C13_Witness ==
    \E r \in Req :
        /\ pc[r] = "failed"
        /\ {"primary", "except"} \subseteq trace[r]
        /\ \A q \in Req \ {r} : pc[q] = "idle"
        /\ ticks = 0
        /\ usage_stats.minute.count = 20
        /\ usage_stats.day.count = 2000
        /\ usage_stats.hour_audio.seconds = 7200
        /\ usage_stats.day_audio.seconds = 28800

\* C14: a request enters check_and_update_limits at most once, so it commits
\* at most once and each request count grows by exactly 1 through it; the
\* primary engine is called only from the state an admission leaves behind,
\* never by a request that was not admitted.
C14_OneAdmission ==
    /\ [](\A r \in Req :
            /\ "primary" \in trace[r] => "quota" \in trace[r]
            /\ pc[r] \in {"post", "normalize"} =>
                  /\ "quota" \in trace[r]
                  /\ groq_error[r] = "none")
    /\ [][ \A r \in Req :
             /\ (pc[r] # "reset" /\ pc'[r] = "reset") =>
                   pc[r] = "acquire" /\ "quota" \notin trace[r]
             /\ (pc[r] # "commit" /\ pc'[r] = "commit") => pc[r] = "check"
             /\ (pc[r] # "post" /\ pc'[r] = "post") => pc[r] = "admitted"
             /\ ("primary" \notin trace[r] /\ "primary" \in trace'[r]) =>
                   pc[r] = "post"
             /\ (pc'[r] # pc[r] /\ usage_stats' # usage_stats) =>
                   \/ pc[r] = "reset"
                   \/ /\ pc[r] = "commit" /\ pc'[r] = "admitted"
                      /\ "primary" \notin trace[r]
                      /\ usage_stats'.minute.count = usage_stats.minute.count + 1
                      /\ usage_stats'.day.count = usage_stats.day.count + 1
         ]_vars

\* One request was admitted and has made its primary call; the other was
\* turned away by the limiter and answered from the captions without one.
C14_Witness ==
    \E r1 \in Req, r2 \in Req :
        /\ pc[r1] = "normalize"
        /\ "primary" \in trace[r1]
        /\ pc[r2] = "finally"
        /\ "quota" \in trace[r2]
        /\ "primary" \notin trace[r2]
        /\ response[r2].body = "youtube_captions"

\* Whether str reads H:MM:SS: digits, with colons before the last two pairs
C15_IsHMS(str) ==
    /\ Len(str) >= 7
    /\ \A i \in 1 .. Len(str) :
          IF i \in {Len(str) - 5, Len(str) - 2}
          THEN str[i] = ":"
          ELSE \E d \in 1 .. 10 : DigitChars[d] = str[i]

C15_Digit(c) == (CHOOSE d \in 1 .. 10 : DigitChars[d] = c) - 1

RECURSIVE C15_Number(_)
C15_Number(digits) ==
    IF digits = << >> THEN 0
    ELSE 10 * C15_Number(SubSeq(digits, 1, Len(digits) - 1))
           + C15_Digit(digits[Len(digits)])

\* The whole seconds an H:MM:SS string stands for
C15_Seconds(str) ==
    LET n == Len(str)
    IN  3600 * C15_Number(SubSeq(str, 1, n - 6))
          + 60 * C15_Number(SubSeq(str, n - 4, n - 3))
          + C15_Number(SubSeq(str, n - 1, n))

\* str is time t (in ticks) cut down to whole seconds
C15_Truncates(str, t) ==
    /\ C15_IsHMS(str)
    /\ C15_Seconds(str) * TicksPerSecond <= t
    /\ t < (C15_Seconds(str) + 1) * TicksPerSecond

\* C15: the fallback emits one segment per caption entry, in the adapter's
\* order, with start = format_time(start) and end = format_time(start +
\* duration), the sum taken before formatting; both read H:MM:SS and stand
\* for the times cut down, not rounded, to whole seconds, so start <= end;
\* the primary path formats its start and end with the same function, so the
\* same speech gets the same boundaries from either source.
C15_FallbackTiming ==
    /\ source = "youtube_captions" =>
          /\ Len(segments) = Len(transcript)
          /\ \A i \in 1 .. Len(transcript) :
                /\ segments[i].start = format_time(transcript[i].start)
                /\ segments[i].end =
                      format_time(transcript[i].start + transcript[i].duration)
                /\ C15_Truncates(segments[i].start, transcript[i].start)
                /\ C15_Truncates(segments[i].end,
                                 transcript[i].start + transcript[i].duration)
                /\ C15_Seconds(segments[i].start) <= C15_Seconds(segments[i].end)
                /\ segments[i].text = strip(transcript[i].text)
    /\ source = "groq_whisper" =>
          /\ Len(segments) = Len(result)
          /\ \A i \in 1 .. Len(result) :
                /\ C15_Truncates(segments[i].start, result[i].start)
                /\ C15_Truncates(segments[i].end, result[i].end)
          /\ segments = FallbackSegments(transcript)

\* The caption entry {"\u1680 hi\r\n", 1.0, 2.5} came out as 0:00:01 - 0:00:03, and
\* after it {1.5, 1.5} as 0:00:01 - 0:00:03 as well.
C15_Witness ==
    /\ source = "youtube_captions"
    /\ Len(transcript) = 2
    /\ transcript[1] = [text |-> << "U+1680", " ", "h", "i", "\r", "\n" >>,
                        start |-> 2,
                        duration |-> 5]
    /\ transcript[2].start = 3
    /\ transcript[2].duration = 3
    /\ segments[1] = [start |-> << "0", ":", "0", "0", ":", "0", "1" >>,
                      end |-> << "0", ":", "0", "0", ":", "0", "3" >>,
                      text |-> << "h", "i" >>]
    /\ segments[2].end = << "0", ":", "0", "0", ":", "0", "3" >>

\* The dimensions in the order the claim fixes, with the detail each reports
C16_Order == << "Groq RPM limit reached", "Groq RPD limit reached",
                "Groq ASH limit reached", "Groq ASD limit reached" >>

\* The positions in C16_Order of the dimensions that counters c and an
\* increment of audio seconds would exceed
C16_Violated(c, audio) ==
    { i \in 1 .. 4 :
        \/ i = 1 /\ c.minute + 1 > 20
        \/ i = 2 /\ c.day + 1 > 2000
        \/ i = 3 /\ c.hour_audio + audio > 7200
        \/ i = 4 /\ c.day_audio + audio > 28800 }

\* C16: a rejection names the first dimension, in the order requests per
\* minute, requests per day, audio seconds per hour, audio seconds per day,
\* that the counters as the resets left them would exceed; the dimension
\* named is one that is exceeded.
C16_FirstViolated ==
    \A r \in Req :
        pc[r] = "raise_429" =>
            LET v == C16_Violated(after_reset[r], audio_seconds[r])
            IN  /\ v # {}
                /\ \E i \in v :
                      /\ \A j \in v : i <= j
                      /\ groq_error[r] = C16_Order[i]

\* A rejection for requests per day while the minute window had room and
\* both audio totals would have been exceeded as well.
C16_Witness ==
    \E r \in Req :
        /\ pc[r] = "raise_429"
        /\ groq_error[r] = "Groq RPD limit reached"
        /\ C16_Violated(after_reset[r], audio_seconds[r]) = {2, 3, 4}

\* C17: cleanup is safe when an artifact was never created.  The finally
\* block of a request that holds neither file, or the fetched file only,
\* completes, leaves no file, and hands the caller the outcome the handler
\* had reached: the fallback result or the unified failure.
C17_CleanupSafe ==
    [][ \A r \in Req :
          (/\ pc[r] = "finally"
           /\ pc'[r] # "finally"
           /\ ~mp3[r].exists) =>
              /\ response'[r] = response[r]
              /\ response'[r] \in { [status |-> 200, body |-> "youtube_captions"],
                                    UnifiedFailure }
              /\ pc'[r] = IF response[r].status = 200 THEN "done" ELSE "failed"
              /\ ~mp4'[r]
              /\ ~mp3'[r].exists
      ]_vars

\* A request whose fetch left nothing has returned the captions, and one
\* whose transcode left nothing has ended in the unified failure.
C17_Witness ==
    \E r1 \in Req, r2 \in Req :
        /\ pc[r1] = "done"
        /\ "fetch" \in trace[r1]
        /\ "mp4" \notin trace[r1]
        /\ response[r1].body = "youtube_captions"
        /\ pc[r2] = "failed"
        /\ {"mp4", "transcode"} \subseteq trace[r2]
        /\ "mp3" \notin trace[r2]
        /\ response[r2] = UnifiedFailure

\* 25 MB in bytes
C18_Ceiling == 25 * 1024 * 1024

\* C18: a transcoded file of more than 25 MB is turned away before the
\* limiter: the request goes to the fallback branch with no probe, no
\* limiter call and no primary call in its history, the step that turns it
\* away changes no counter, and whatever request has reached the probe or
\* the limiter holds a file within the ceiling.
C18_OversizeBeforeQuota ==
    /\ [](\A r \in Req :
            /\ groq_error[r] = "Audio file exceeds Groq 25MB limit" =>
                  /\ pc[r] \in {"except", "get_transcript"}
                  /\ mp3[r].size > C18_Ceiling
                  /\ trace[r] \cap {"probe", "quota", "primary"} = {}
            /\ (mp3[r].exists /\ mp3[r].size > C18_Ceiling) =>
                  /\ pc[r] \in {"file_size", "except", "get_transcript",
                                "finally"}
                  /\ trace[r] \cap {"probe", "quota", "primary"} = {})
    /\ [][ \A r \in Req :
             (pc[r] = "file_size" /\ pc'[r] # "file_size") =>
                 /\ UNCHANGED << usage_stats, usage_lock >>
                 /\ pc'[r] = IF mp3[r].size > C18_Ceiling THEN "except"
                             ELSE "probe"
         ]_vars

\* A file one byte over the ceiling sent its request to the fallback while
\* a file of exactly 25 MB went on to the limiter and was admitted.
C18_Witness ==
    \E r1 \in Req, r2 \in Req :
        /\ pc[r1] = "except"
        /\ groq_error[r1] = "Audio file exceeds Groq 25MB limit"
        /\ mp3[r1].size = C18_Ceiling + 1
        /\ pc[r2] = "post"
        /\ mp3[r2].size = C18_Ceiling

\* C19: a failed duration probe yields 0 and the request still goes to the
\* limiter with an audio increment of zero: every request that ran the probe
\* is submitted to admission; with a zero increment it is rejected only for
\* a request count, and when admitted both request counts have grown by 1
\* and both audio totals are what the resets left, an audio total that
\* stands at its limit included.
C19_ProbeFailureAdmitted ==
    /\ \A stdout \in ProbeResults :
          ~stdout.parsed => get_audio_duration(stdout) = 0
    /\ \A r \in Req :
          /\ ("probe" \in trace[r] /\ "quota" \notin trace[r]) =>
                pc[r] = "acquire"
          /\ (pc[r] = "raise_429" /\ audio_seconds[r] = 0) =>
                /\ after_reset[r].minute >= 20 \/ after_reset[r].day >= 2000
                /\ groq_error[r] \in {"Groq RPM limit reached",
                                      "Groq RPD limit reached"}
          /\ (pc[r] = "admitted" /\ audio_seconds[r] = 0) =>
                /\ usage_stats.minute.count = after_reset[r].minute + 1
                /\ usage_stats.day.count = after_reset[r].day + 1
                /\ usage_stats.hour_audio.seconds = after_reset[r].hour_audio
                /\ usage_stats.day_audio.seconds = after_reset[r].day_audio

\* C20: usage_lock is held exactly while one request is between the entry
\* and the exit of check_and_update_limits.  At most one request is inside
\* at any time; a request that fetches, transcodes, probes, calls the engine
\* or the caption adapter, or cleans up does not hold the lock and its steps
\* do not touch it; every exit, the admission and each rejection, frees the
\* lock, so that a waiting request can take it.
C20_LockScope ==
    /\ [](/\ Cardinality({ r \in Req : InCriticalSection(r) }) <= 1
          /\ usage_lock <=> \E r \in Req : InCriticalSection(r))
    /\ [][ \A r \in Req :
             /\ (pc'[r] # pc[r] /\ pc[r] # "acquire" /\ ~InCriticalSection(r)) =>
                   usage_lock' = usage_lock
             /\ (InCriticalSection(r) /\ ~InCriticalSection(r)') =>
                   /\ pc[r] \in {"admitted", "raise_429"}
                   /\ pc[r] = "raise_429" => groq_error[r] \in
                         {"Groq RPM limit reached", "Groq RPD limit reached",
                          "Groq ASH limit reached", "Groq ASD limit reached"}
                   /\ ~usage_lock'
             /\ (~InCriticalSection(r) /\ InCriticalSection(r)') =>
                   pc[r] = "acquire" /\ ~usage_lock /\ usage_lock'
         ]_vars

\* After one request was rejected for audio seconds and left the critical
\* section, the other has taken the lock.
C20_Witness ==
    \E r1 \in Req, r2 \in Req :
        /\ pc[r1] = "except"
        /\ groq_error[r1] = "Groq ASH limit reached"
        /\ pc[r2] = "reset"
        /\ usage_lock

====
